---- MODULE Spec2Model ----
(***************************************************************************)
(* Model of ColpaliModalService.generate_embeddings_endpoint               *)
(* (src/morphik-external/scripts/colpali_modal_app.py): the batch loop,    *)
(* the out-of-memory handler with its item-by-item fallback, the calls of  *)
(* _clear_gpu_memory and the mapping of exceptions to responses.           *)
(*                                                                         *)
(* A Python string is a sequence of tokens ("data:", ",", base64 chunks),  *)
(* so that _decode_image is computed on its argument.  The processor and   *)
(* the model are external: a call of either returns (the processor the     *)
(* encoded batch on the device, the model one embedding per item) or       *)
(* raises one of the exception kinds the handlers of the endpoint tell     *)
(* apart, an out-of-memory RuntimeError of the device among them.          *)
(* The try block opened at line 159 is read as covering lines 160-172.     *)
(***************************************************************************)
EXTENDS Integers, Sequences, FiniteSets, TLC

VARIABLES
    pc,                   \* position of each request's handler
    binascii,             \* how the container's base64 treats padding
    posted,               \* the JSON body each client posted
    loop,                 \* the request whose coroutine runs on the event loop
    input_type,           \* payload.input_type
    inputs_data,          \* payload.inputs
    all_embeddings_list,  \* the handler's accumulator (a local)
    i,                    \* offset of the current batch (0-based, as in range)
    batch_input_data,     \* inputs_data[i:i + batch_size]
    processed_batch,      \* what the processor returned for the batch
    k,                    \* position of single_item in the batch (1-based)
    response,             \* what the handler returned
    raised,               \* history: what the latest processor or model call raised
    trace                 \* history: batches started, model calls, reclaims

vars == <<pc, loop, binascii, posted, input_type, inputs_data,
          all_embeddings_list, i, batch_input_data, processed_batch, k,
          response, raised, trace>>

\* ------------------------------------------------------------- bounds
MaxTextInputs == 5
MaxImageInputs == 3
MaxOtherInputs == 2

\* ---------------------------------------------------------- constants
TextBatchSize == 4
ImageBatchSize == 1

Requests == {"r1", "r2"}
Solo == {"r1"}

\* ------------------------------------------------------------- values
Str(s) == [type |-> "str", val |-> s]
NonStr == [type |-> "int", val |-> <<"7">>]

\* Items of a posted text body: a JSON string and a JSON number (which a
\* converting EmbeddingRequest hands to the handler as the string "7").
PostedTextItems == {Str(<<"a">>), NonStr}

PostedImageItems ==
    { Str(<<"data:", "image/png;base64", ",", "IMG1">>),  \* data URI
      Str(<<"IMG2">>),                                    \* bare base64
      Str(<<"data:", "IMG1">>),                           \* data URI, no comma
      Str(<<"JUNK">>),                                    \* base64, no raster
      Str(<<"IMG2", "IMG1">>),                            \* data after padding
      NonStr }             \* a number; converted, base64 cut short

PostedOtherItems == {Str(<<"a">>)}

SeqsUpTo(S, n) == UNION {[1..m -> S] : m \in 0..n}

\* The JSON bodies a client may post.  An item of "inputs" may be a JSON
\* number; whether it comes to the handler is for EmbeddingRequest.
PostedBodies ==
    [input_type : {"text"}, inputs : SeqsUpTo(PostedTextItems, MaxTextInputs)]
    \cup [input_type : {"image"}, inputs : SeqsUpTo(PostedImageItems, MaxImageInputs)]
    \cup [input_type : {"audio"}, inputs : SeqsUpTo(PostedOtherItems, MaxOtherInputs)]

\* What the unpinned "fastapi" of the image (lines 17-26) brings along:
\* a pydantic that refuses an item of List[str] that is no str, or one
\* (pydantic 1) that converts it with str().
Pydantics == {"strict", "lax"}

\* EmbeddingRequest (lines 37-39) validating a posted body: the payload
\* the handler receives, or a ValidationError.
EmbeddingRequest(pydantic, posted_body) ==
    IF \A p \in DOMAIN posted_body.inputs : posted_body.inputs[p].type = "str"
    THEN [ok |-> TRUE, payload |-> posted_body]
    ELSE IF pydantic = "strict"
    THEN [ok |-> FALSE, payload |-> posted_body]
    ELSE [ok |-> TRUE,
          payload |-> [posted_body EXCEPT !.inputs =
                          [p \in DOMAIN posted_body.inputs |->
                              Str(posted_body.inputs[p].val)]]]

\* Outcomes of one call of the processor or of self.model: a result, or
\* the exception raised.
Outcomes == {"ok", "oom", "runtime", "value", "other"}

Min(a, b) == IF a < b THEN a ELSE b

\* ------------------------------------------------------ _decode_image
\* What _decode_image raises: ValueError (lines 105, 110) or, on an item
\* that is no str, the AttributeError of ".startswith" (line 101).
Raised(exc) == [ok |-> FALSE, image |-> "none", exc |-> exc]

startswith(s, prefix) == Len(s) > 0 /\ s[1] = prefix

\* s.split(",", 1): the parts around the first comma (one part if none).
split(s) ==
    IF \E j \in 1..Len(s) : s[j] = ","
    THEN LET c == CHOOSE j \in 1..Len(s) :
                      s[j] = "," /\ \A h \in 1..(j - 1) : s[h] # ","
         IN <<SubSeq(s, 1, c - 1), SubSeq(s, c + 1, Len(s))>>
    ELSE <<s>>

\* The tokens as base64 text.  "IMG1" stands for the base64 of a PNG of 69
\* bytes (92 characters, no padding), "IMG2" for the base64 of a GIF of 35
\* bytes (47 characters and one "="); the other tokens are literal.
\* Base64Chars: how many characters of the token are of the base64
\* alphabet (A-Z a-z 0-9 + /).
Base64Chars(tok) ==
    CASE tok = "IMG1" -> 92
      [] tok = "IMG2" -> 47
      [] tok = "JUNK" -> 4
      [] tok = "data:" -> 4
      [] tok = "image/png;base64" -> 15
      [] tok \in {"a", "b", "7"} -> 1
      [] OTHER -> 0

\* The "=" at the end of the token.
Base64Pads(tok) == IF tok = "IMG2" THEN 1 ELSE 0

\* The bytes a token decodes to when the decoder is at the start of a
\* group of four and the token is a whole number of groups.
Base64Chunk(tok) ==
    CASE tok = "IMG1" -> "raster1"
      [] tok = "IMG2" -> "raster2"
      [] OTHER -> "bytes"

\* The image pins no Python (modal.Image.debian_slim(), line 17), and the
\* CPythons differ in binascii.a2b_base64: up to 3.13.0 padding that
\* completes a group of four ends the decoding and what follows is
\* ignored; later ones read on, and padding counts only at the end.
Runtimes == {"stops_at_padding", "reads_past_padding"}

\* binascii.a2b_base64 from token j on, quad_pos characters into a group of
\* four with pads "=" seen since the last character of the alphabet:
\* characters outside the alphabet are skipped, and a group left
\* incomplete and unpadded at the end of the string raises.
RECURSIVE a2b_base64(_, _, _, _, _, _)
a2b_base64(runtime, s, j, quad_pos, pads, out) ==
    IF j > Len(s)
    THEN LET ok == \/ quad_pos = 0
                   \/ /\ runtime = "reads_past_padding"
                      /\ quad_pos >= 2 /\ quad_pos + pads >= 4
         IN [ok |-> ok, bytes |-> IF ok THEN out ELSE <<>>]
    ELSE LET tok == s[j]
             n == Base64Chars(tok)
             pos == (quad_pos + n) % 4
             seen == (IF n > 0 THEN 0 ELSE pads) + Base64Pads(tok)
             whole == quad_pos = 0 /\ (n + Base64Pads(tok)) % 4 = 0
             more == IF n = 0 THEN out
                     ELSE Append(out, IF whole THEN Base64Chunk(tok)
                                      ELSE "bytes")
         IN IF /\ runtime = "stops_at_padding"
               /\ Base64Pads(tok) > 0 /\ pos >= 2 /\ pos + seen >= 4
            THEN [ok |-> TRUE, bytes |-> more]
            ELSE a2b_base64(runtime, s, j + 1, pos, seen, more)

\* base64.b64decode(s), validate=False, under the given runtime.
b64decode(runtime, s) == a2b_base64(runtime, s, 1, 0, 0, <<>>)

\* PIL.Image.open(io.BytesIO(bytes)): the format is told from the first
\* bytes; what is no raster, or nothing at all, is not identified.
open_image(bytes) ==
    IF Len(bytes) >= 1 /\ bytes[1] \in {"raster1", "raster2"}
    THEN [ok |-> TRUE, image |-> bytes[1]]
    ELSE [ok |-> FALSE, image |-> "none"]

_decode_image(runtime, base64_string) ==
    IF base64_string.type # "str" THEN Raised("AttributeError")
    ELSE
    LET parts == split(base64_string.val)
        malformed == startswith(base64_string.val, "data:") /\ Len(parts) < 2
        stripped == IF startswith(base64_string.val, "data:") /\ ~malformed
                    THEN parts[2] ELSE base64_string.val
        decoded == b64decode(runtime, stripped)
        opened == open_image(decoded.bytes)
    IN IF malformed THEN Raised("ValueError")
       ELSE IF ~decoded.ok \/ ~opened.ok THEN Raised("ValueError")
       ELSE [ok |-> TRUE, image |-> opened.image, exc |-> "none"]

\* The strings that can come to _decode_image: the items of a posted image
\* body as EmbeddingRequest hands them to the handler.
ImageStrings == {Str(x.val) : x \in PostedImageItems}

\* self._decode_image(b64_str) on each of those strings under each
\* runtime: the function is pure, so its results are worked out once and
\* the handler's calls look them up.
decoded_images ==
    [runtime \in Runtimes |->
        [base64_string \in ImageStrings |-> _decode_image(runtime, base64_string)]]

\* ---------------------------------------------------- processor, model
isinstance_str(x) == x.type = "str"

\* What a processor call raises (lines 150, 154, 185, 187): the exception
\* of the encoding or of the transfer ".to(self.device)", which may be an
\* out-of-memory RuntimeError of the device.
Unprocessed(encoded) == [ok |-> FALSE, batch |-> <<>>, exc |-> encoded]

\* self.processor.process_queries(texts).to(self.device): the encoded
\* batch on the device, or what the call raised.
process_queries(texts, encoded) ==
    IF encoded = "ok"
    THEN [ok |-> TRUE,
          batch |-> [j \in 1..Len(texts) |->
                        [kind |-> "query", data |-> texts[j].val]],
          exc |-> "none"]
    ELSE Unprocessed(encoded)

\* self.processor.process_images(pil_images).to(self.device): the same
\* for rasters.
process_images(pil_images, encoded) ==
    IF encoded = "ok"
    THEN [ok |-> TRUE,
          batch |-> [j \in 1..Len(pil_images) |->
                        [kind |-> "pixels", data |-> <<pil_images[j]>>]],
          exc |-> "none"]
    ELSE Unprocessed(encoded)

\* self.model(**processed).to(float32).cpu().numpy().tolist(): one
\* embedding per item of the batch, in the order of the batch.
model(processed) ==
    [j \in 1..Len(processed) |-> [of |-> processed[j].kind, vec |-> processed[j].data]]

\* ------------------------------------------------------------ history
Ev(ev, at, res) == [ev |-> ev, at |-> at, res |-> res]
ReclaimEv == Ev("reclaim", <<>>, "")

\* Classification of what an inference step (processor call, then model
\* call) raised: an out-of-memory RuntimeError or any other exception.
Classification(outcome) ==
    CASE outcome = "ok" -> "ok"
      [] outcome = "oom" -> "ResourceExhausted"
      [] OTHER -> "Internal"

\* An inference step returned or raised.
Result(outcome) == IF outcome = "ok" THEN "ok" ELSE "raised"

\* The exception the call raised, if any.
Exception(outcome) == IF outcome = "ok" THEN "none" ELSE outcome

\* ------------------------------------------------------------ helpers
\* _clear_gpu_memory(): empty_cache and gc.collect, seen as one reclaim.
_clear_gpu_memory(tr) == Append(tr, ReclaimEv)

\* Mutant of batch_size: images go two at a time.
batch_size_pairs(t) == IF t = "text" THEN TextBatchSize ELSE ImageBatchSize + 1

batch_size(t) == IF t = "text" THEN TextBatchSize ELSE ImageBatchSize

\* Mutant of Slice: the window starts one item late and ends one item late.
Slice_shifted(inputs, off, bs) ==
    SubSeq(inputs, off + 2, Min(off + bs + 1, Len(inputs)))

\* inputs[off:off + bs], off counted from 0.
Slice(inputs, off, bs) == SubSeq(inputs, off + 1, Min(off + bs, Len(inputs)))

\* Positions in inputs_data (from 1) of the items of the batch at off.
Positions(off, n) == [j \in 1..n |-> off + j]

\* Mutant of extend: the batch's embeddings are put in front.
extend_front(list, more) == more \o list

extend(list, more) == list \o more

\* "not inputs_data"
IsEmpty(inputs) == Len(inputs) = 0

\* Mutant of Branch: whatever is not an image is taken for text.
Branch_else_text(t) == IF t = "image" THEN "image" ELSE "text"

\* The if / elif / else over input_type of lines 147, 151 and 155.
Branch(t) ==
    CASE t = "image" -> "image"
      [] t = "text" -> "text"
      [] OTHER -> "invalid"

\* Mutant of CanFallBack: a batch of one item is retried item by item too.
CanFallBack_any(batch) == Len(batch) >= 1

\* "if len(batch_input_data) > 1" of line 179.
CanFallBack(batch) == Len(batch) > 1

\* Mutant of SingleCatches: only out of memory on an item is caught.
SingleCatches_only_oom(outcome) == outcome = "oom"

\* Mutant of SingleCatches: out of memory on an item is not caught.
SingleCatches_not_oom(outcome) == outcome \in {"runtime", "value", "other"}

\* "except Exception as single_e" of line 198 catches whatever the item
\* raised; an exception it did not catch would leave the batch.
SingleCatches(outcome) == outcome \in {"oom", "runtime", "value", "other"}

NoResponse == [status |-> 0, body |-> "none", embeddings |-> <<>>, error |-> ""]

\* return {"embeddings": ...}: a 200 response.
Embeddings(list) ==
    [status |-> 200, body |-> "embeddings", embeddings |-> list, error |-> ""]

JSONResponse(msg, status_code) ==
    [status |-> status_code, body |-> "error", embeddings |-> <<>>, error |-> msg]

\* Mutant of EmptyReturn: a request without inputs is refused.
EmptyReturn_refused == JSONResponse("No inputs", 400)

\* Line 127: what a request without inputs is answered.
EmptyReturn == Embeddings(<<>>)

\* The handler returns: the coroutine ends and frees the event loop.
Return(r, resp) ==
    /\ response' = [response EXCEPT ![r] = resp]
    /\ pc' = [pc EXCEPT ![r] = "done"]
    /\ loop' = "none"

\* The runtimes the container may have, as far as its decodes have shown.
RuntimesLeft == IF binascii = "unobserved" THEN Runtimes ELSE {binascii}

\* Decoding the string does not come out the same under every runtime.
DependsOnRuntime(base64_string) ==
    decoded_images["stops_at_padding"][base64_string]
        # decoded_images["reads_past_padding"][base64_string]

TypeOK ==
    /\ pc \in [Requests -> {"idle", "queued", "validate", "for_batch", "prepare",
                            "infer", "batch_cleanup", "oom", "single",
                            "single_cleanup", "except_ValueError",
                            "except_Exception", "final_cleanup", "done",
                            "refused"}]
    /\ binascii \in Runtimes \cup {"unobserved"}
    /\ loop \in Requests \cup {"none"}
    /\ raised \in [Requests -> (Outcomes \ {"ok"}) \cup {"none"}]
    /\ \A r \in Requests : i[r] \in Nat /\ k[r] \in Nat

\* Nothing has been posted, and no decode has yet depended on which
\* binascii the container has.
Init ==
    /\ pc = [r \in Requests |-> "idle"]
    /\ binascii = "unobserved"
    /\ posted = [r \in Requests |-> [input_type |-> "", inputs |-> <<>>]]
    /\ loop = "none"
    /\ input_type = [r \in Requests |-> ""]
    /\ inputs_data = [r \in Requests |-> <<>>]
    /\ all_embeddings_list = [r \in Requests |-> <<>>]
    /\ i = [r \in Requests |-> 0]
    /\ batch_input_data = [r \in Requests |-> <<>>]
    /\ processed_batch = [r \in Requests |-> <<>>]
    /\ k = [r \in Requests |-> 0]
    /\ response = [r \in Requests |-> NoResponse]
    /\ raised = [r \in Requests |-> "none"]
    /\ trace = [r \in Requests |-> <<>>]

\* ------------------------------------------------------------ actions
\* A POST arrives.  EmbeddingRequest validates the body before the handler
\* is called: a body it refuses is answered by FastAPI (422) and never
\* comes to the handler.
RequestArrives(r, payload) ==
    /\ pc[r] = "idle"
    /\ posted' = [posted EXCEPT ![r] = payload]
    /\ \E pydantic \in Pydantics :
          LET request == EmbeddingRequest(pydantic, payload)
          IN IF request.ok
             THEN /\ pc' = [pc EXCEPT ![r] = "queued"]
                  /\ input_type' = [input_type EXCEPT ![r] =
                         request.payload.input_type]
                  /\ inputs_data' = [inputs_data EXCEPT ![r] =
                         request.payload.inputs]
                  /\ UNCHANGED response
             ELSE /\ pc' = [pc EXCEPT ![r] = "refused"]
                  /\ response' = [response EXCEPT ![r] =
                         JSONResponse("Input should be a valid string", 422)]
                  /\ UNCHANGED <<input_type, inputs_data>>
    /\ UNCHANGED <<loop, binascii, all_embeddings_list, i, batch_input_data,
                   processed_batch, k, raised, trace>>

\* Mutant of Dispatch: the handler is started whether or not another one
\* is running, as a pool of threads would.
Dispatch_threadpool(r) ==
    /\ pc[r] = "queued"
    /\ loop' = r
    /\ pc' = [pc EXCEPT ![r] = "validate"]
    /\ UNCHANGED <<binascii, posted, input_type, inputs_data, all_embeddings_list, i,
                   batch_input_data, processed_batch, k, response, raised, trace>>

\* The event loop starts the handler's coroutine.  The handler awaits
\* nothing, so it keeps the loop until it returns.
Dispatch(r) ==
    /\ pc[r] = "queued"
    /\ loop = "none"
    /\ loop' = r
    /\ pc' = [pc EXCEPT ![r] = "validate"]
    /\ UNCHANGED <<binascii, posted, input_type, inputs_data, all_embeddings_list, i,
                   batch_input_data, processed_batch, k, response, raised, trace>>

\* Mutant of Validate: the accumulator is one list of the service, which a
\* request finds as the other request left it.
Validate_shared_list(r) ==
    /\ pc[r] = "validate" /\ loop = r
    /\ IF IsEmpty(inputs_data[r])
       THEN /\ Return(r, EmptyReturn)
            /\ UNCHANGED <<all_embeddings_list, i>>
       ELSE /\ all_embeddings_list' = [all_embeddings_list EXCEPT ![r] =
                   all_embeddings_list[CHOOSE q \in Requests : q # r]]
            /\ i' = [i EXCEPT ![r] = 0]
            /\ pc' = [pc EXCEPT ![r] = "for_batch"]
            /\ UNCHANGED <<loop, response>>
    /\ UNCHANGED <<binascii, posted, input_type, inputs_data, batch_input_data, processed_batch,
                   k, raised, trace>>

\* Lines 124-138: the empty short-circuit, then the accumulator.
Validate(r) ==
    /\ pc[r] = "validate" /\ loop = r
    /\ IF IsEmpty(inputs_data[r])
       THEN /\ Return(r, EmptyReturn)
            /\ UNCHANGED <<all_embeddings_list, i>>
       ELSE /\ all_embeddings_list' = [all_embeddings_list EXCEPT ![r] = <<>>]
            /\ i' = [i EXCEPT ![r] = 0]
            /\ pc' = [pc EXCEPT ![r] = "for_batch"]
            /\ UNCHANGED <<loop, response>>
    /\ UNCHANGED <<binascii, posted, input_type, inputs_data, batch_input_data, processed_batch,
                   k, raised, trace>>

\* Mutant of ForBatch: the loop does not notice the end of the list.
ForBatch_no_exit(r) ==
    /\ pc[r] = "for_batch" /\ loop = r
    /\ IF i[r] < Len(inputs_data[r])
       THEN LET batch == Slice(inputs_data[r], i[r], batch_size(input_type[r]))
            IN /\ batch_input_data' = [batch_input_data EXCEPT ![r] = batch]
               /\ processed_batch' = [processed_batch EXCEPT ![r] = <<>>]
               /\ trace' = [trace EXCEPT ![r] =
                      Append(@, Ev("batch", Positions(i[r], Len(batch)), ""))]
               /\ pc' = [pc EXCEPT ![r] = "prepare"]
       ELSE /\ pc' = [pc EXCEPT ![r] = "for_batch"]
            /\ UNCHANGED <<batch_input_data, processed_batch, trace>>
    /\ UNCHANGED <<loop, binascii, posted, input_type, inputs_data, all_embeddings_list, i, k,
                   response, raised>>

\* Lines 141-145: the head of "for i in range(0, len(inputs_data), batch_size)".
ForBatch(r) ==
    /\ pc[r] = "for_batch" /\ loop = r
    /\ IF i[r] < Len(inputs_data[r])
       THEN LET batch == Slice(inputs_data[r], i[r], batch_size(input_type[r]))
            IN /\ batch_input_data' = [batch_input_data EXCEPT ![r] = batch]
               /\ processed_batch' = [processed_batch EXCEPT ![r] = <<>>]
               /\ trace' = [trace EXCEPT ![r] =
                      Append(@, Ev("batch", Positions(i[r], Len(batch)), ""))]
               /\ pc' = [pc EXCEPT ![r] = "prepare"]
       ELSE /\ pc' = [pc EXCEPT ![r] = "final_cleanup"]
            /\ UNCHANGED <<batch_input_data, processed_batch, trace>>
    /\ UNCHANGED <<loop, binascii, posted, input_type, inputs_data, all_embeddings_list, i, k,
                   response, raised>>

\* Which handler of the outer try catches an exception that leaves the
\* batch: "except ValueError" (line 206) before "except Exception" (209).
OuterHandler(outcome) ==
    IF outcome = "value" THEN "except_ValueError" ELSE "except_Exception"

\* Lines 147-158: decode or validate the batch, then run the processor and
\* move its result to the device.  All of this is inside the outer try
\* only: what the processor call raises, out of memory included, passes
\* by "except RuntimeError" (174) and leaves the loop for 206 or 209.
\* A batch is never empty, so "if not pil_images" (149) never continues and
\* "if processed_batch" (158) always enters.
Prepare(r) ==
    /\ pc[r] = "prepare" /\ loop = r
    /\ \E runtime \in RuntimesLeft :
        LET batch == batch_input_data[r]
            decoded == [j \in 1..Len(batch) |-> decoded_images[runtime][batch[j]]]
            failed == Append(trace[r], Ev("fail", <<>>, "BadInput"))
            fails == \E j \in 1..Len(batch) : ~decoded[j].ok
            first == CHOOSE j \in 1..Len(batch) :
                         ~decoded[j].ok /\ \A h \in 1..(j - 1) : decoded[h].ok
            tried == IF fails THEN 1..first ELSE 1..Len(batch)
            Process(processed) ==
                IF processed.ok
                THEN /\ processed_batch' = [processed_batch EXCEPT ![r] =
                            processed.batch]
                     /\ pc' = [pc EXCEPT ![r] = "infer"]
                     /\ UNCHANGED <<trace, response, loop, raised>>
                ELSE /\ trace' = [trace EXCEPT ![r] =
                            Append(Append(@, Ev("infer", Positions(i[r], Len(batch)),
                                                "raised")),
                                   Ev("fail", <<>>, Classification(processed.exc)))]
                     /\ raised' = [raised EXCEPT ![r] = processed.exc]
                     /\ pc' = [pc EXCEPT ![r] = OuterHandler(processed.exc)]
                     /\ UNCHANGED <<processed_batch, response, loop>>
        IN CASE Branch(input_type[r]) = "image" ->
                  /\ binascii' = IF \E j \in tried : DependsOnRuntime(batch[j])
                                 THEN runtime ELSE binascii
                  /\ IF fails
                     THEN /\ trace' = [trace EXCEPT ![r] = failed]
                          /\ pc' = [pc EXCEPT ![r] =
                                 IF decoded[first].exc = "ValueError"
                                 THEN "except_ValueError"
                                 ELSE "except_Exception"]
                          /\ UNCHANGED <<processed_batch, response, loop, raised>>
                     ELSE \E encoded \in Outcomes :
                              Process(process_images(
                                  [j \in 1..Len(batch) |-> decoded[j].image],
                                  encoded))
             [] Branch(input_type[r]) = "text" ->
                  /\ IF ~(\A j \in 1..Len(batch) : isinstance_str(batch[j]))
                     THEN /\ trace' = [trace EXCEPT ![r] = failed]
                          /\ Return(r, JSONResponse(
                                 "Invalid text inputs, not all are strings", 400))
                          /\ UNCHANGED <<processed_batch, raised>>
                     ELSE \E encoded \in Outcomes :
                              Process(process_queries(batch, encoded))
                  /\ UNCHANGED binascii
             [] OTHER ->
                  /\ trace' = [trace EXCEPT ![r] = failed]
                  /\ Return(r, JSONResponse("Invalid input_type", 400))
                  /\ UNCHANGED <<processed_batch, binascii, raised>>
    /\ UNCHANGED <<posted, input_type, inputs_data, all_embeddings_list, i,
                   batch_input_data, k>>

\* Lines 159-163 and the dispatch of 174-175, 203-204: the model runs on
\* the whole batch the processor has put on the device.
InferBatch(r, outcome) ==
    /\ pc[r] = "infer" /\ loop = r
    /\ LET called == Append(trace[r],
                Ev("infer", Positions(i[r], Len(batch_input_data[r])),
                   Result(outcome)))
       IN CASE outcome = "ok" ->
                 /\ all_embeddings_list' = [all_embeddings_list EXCEPT ![r] =
                        extend(@, model(processed_batch[r]))]
                 /\ trace' = [trace EXCEPT ![r] = called]
                 /\ pc' = [pc EXCEPT ![r] = "batch_cleanup"]
            [] outcome = "oom" ->
                 /\ trace' = [trace EXCEPT ![r] = called]
                 /\ pc' = [pc EXCEPT ![r] = "oom"]
                 /\ UNCHANGED all_embeddings_list
            [] OTHER ->
                 /\ trace' = [trace EXCEPT ![r] =
                        Append(called, Ev("fail", <<>>, Classification(outcome)))]
                 /\ pc' = [pc EXCEPT ![r] = OuterHandler(outcome)]
                 /\ UNCHANGED all_embeddings_list
    /\ raised' = [raised EXCEPT ![r] = Exception(outcome)]
    /\ UNCHANGED <<loop, binascii, posted, input_type, inputs_data, i, batch_input_data,
                   processed_batch, k, response>>

\* Lines 165-172: the batch succeeded.
BatchCleanup(r) ==
    /\ pc[r] = "batch_cleanup" /\ loop = r
    /\ processed_batch' = [processed_batch EXCEPT ![r] = <<>>]
    /\ trace' = [trace EXCEPT ![r] = _clear_gpu_memory(@)]
    /\ i' = [i EXCEPT ![r] = @ + batch_size(input_type[r])]
    /\ pc' = [pc EXCEPT ![r] = "for_batch"]
    /\ UNCHANGED <<loop, binascii, posted, input_type, inputs_data, all_embeddings_list,
                   batch_input_data, k, response, raised>>

\* Lines 175-180, 201-202: out of memory on the whole batch.
OomHandler(r) ==
    /\ pc[r] = "oom" /\ loop = r
    /\ IF CanFallBack(batch_input_data[r])
       THEN /\ trace' = [trace EXCEPT ![r] = _clear_gpu_memory(@)]
            /\ k' = [k EXCEPT ![r] = 1]
            /\ pc' = [pc EXCEPT ![r] = "single"]
       ELSE /\ trace' = [trace EXCEPT ![r] =
                   Append(_clear_gpu_memory(@), Ev("fail", <<>>, "ResourceExhausted"))]
            /\ pc' = [pc EXCEPT ![r] = "except_Exception"]
            /\ UNCHANGED k
    /\ UNCHANGED <<loop, binascii, posted, input_type, inputs_data, all_embeddings_list, i,
                   batch_input_data, processed_batch, response, raised>>

\* Mutant of NextSingle: the item-by-item loop stops after one item.
NextSingle_break(r) ==
    /\ i' = [i EXCEPT ![r] = @ + batch_size(input_type[r])]
    /\ pc' = [pc EXCEPT ![r] = "for_batch"]
    /\ UNCHANGED k

\* The item-by-item loop of line 181 moves on: to the next item, or past
\* its end to the next batch of the outer loop.
NextSingle(r) ==
    IF k[r] < Len(batch_input_data[r])
    THEN /\ k' = [k EXCEPT ![r] = @ + 1]
         /\ pc' = [pc EXCEPT ![r] = "single"]
         /\ UNCHANGED i
    ELSE /\ i' = [i EXCEPT ![r] = @ + batch_size(input_type[r])]
         /\ pc' = [pc EXCEPT ![r] = "for_batch"]
         /\ UNCHANGED k

\* Lines 181-192 and 198-200: one item alone: decoded, processed and
\* given to the model inside one try; whatever any of the three raises is
\* printed and the loop continues.
SingleAttempt(r) ==
    /\ pc[r] = "single" /\ loop = r
    /\ \E runtime \in RuntimesLeft :
        LET single_item == batch_input_data[r][k[r]]
            at == <<i[r] + k[r]>>
            single_image == decoded_images[runtime][single_item]
            called(step) == Append(trace[r], Ev("single", at, Result(step)))
            Raise(step) ==
                IF SingleCatches(step)
                THEN /\ trace' = [trace EXCEPT ![r] =
                            Append(called(step), Ev("drop", at, ""))]
                     /\ raised' = [raised EXCEPT ![r] = Exception(step)]
                     /\ NextSingle(r)
                     /\ UNCHANGED all_embeddings_list
                ELSE /\ trace' = [trace EXCEPT ![r] =
                            Append(called(step),
                                   Ev("fail", <<>>, Classification(step)))]
                     /\ raised' = [raised EXCEPT ![r] = Exception(step)]
                     /\ pc' = [pc EXCEPT ![r] = OuterHandler(step)]
                     /\ UNCHANGED <<all_embeddings_list, i, k>>
            Call(single_processed) ==
                IF ~single_processed.ok THEN Raise(single_processed.exc)
                ELSE \E outcome \in Outcomes :
                        IF outcome = "ok"
                        THEN /\ all_embeddings_list' =
                                    [all_embeddings_list EXCEPT ![r] =
                                        extend(@, model(single_processed.batch))]
                             /\ trace' = [trace EXCEPT ![r] = called(outcome)]
                             /\ raised' = [raised EXCEPT ![r] = Exception(outcome)]
                             /\ pc' = [pc EXCEPT ![r] = "single_cleanup"]
                             /\ UNCHANGED <<i, k>>
                        ELSE Raise(outcome)
        IN /\ binascii' = IF input_type[r] = "image" /\ DependsOnRuntime(single_item)
                          THEN runtime ELSE binascii
           /\ IF input_type[r] = "image" /\ ~single_image.ok
              THEN /\ trace' = [trace EXCEPT ![r] = Append(@, Ev("drop", at, ""))]
                   /\ NextSingle(r)
                   /\ UNCHANGED <<all_embeddings_list, raised>>
              ELSE \E encoded \in Outcomes :
                      Call(IF input_type[r] = "image"
                           THEN process_images(<<single_image.image>>, encoded)
                           ELSE process_queries(<<single_item>>, encoded))
    /\ UNCHANGED <<loop, posted, input_type, inputs_data, batch_input_data,
                   processed_batch, response>>

\* Lines 194-196: the item succeeded.
SingleCleanup(r) ==
    /\ pc[r] = "single_cleanup" /\ loop = r
    /\ trace' = [trace EXCEPT ![r] = _clear_gpu_memory(@)]
    /\ NextSingle(r)
    /\ UNCHANGED <<loop, binascii, posted, input_type, inputs_data, all_embeddings_list,
                   batch_input_data, processed_batch, response, raised>>

\* Lines 206-208.
ExceptValueError(r) ==
    /\ pc[r] = "except_ValueError" /\ loop = r
    /\ Return(r, JSONResponse("Input processing error", 400))
    /\ UNCHANGED <<binascii, posted, input_type, inputs_data, all_embeddings_list, i,
                   batch_input_data, processed_batch, k, raised, trace>>

\* Mutant of ExceptException: the 500 answer carries what was accumulated.
ExceptException_partial(r) ==
    /\ pc[r] = "except_Exception" /\ loop = r
    /\ trace' = [trace EXCEPT ![r] = _clear_gpu_memory(@)]
    /\ Return(r, [JSONResponse("Internal server error during embedding", 500)
                     EXCEPT !.embeddings = all_embeddings_list[r]])
    /\ UNCHANGED <<binascii, posted, input_type, inputs_data, all_embeddings_list, i,
                   batch_input_data, processed_batch, k, raised>>

\* Lines 209-212.
ExceptException(r) ==
    /\ pc[r] = "except_Exception" /\ loop = r
    /\ trace' = [trace EXCEPT ![r] = _clear_gpu_memory(@)]
    /\ Return(r, JSONResponse("Internal server error during embedding", 500))
    /\ UNCHANGED <<binascii, posted, input_type, inputs_data, all_embeddings_list, i,
                   batch_input_data, processed_batch, k, raised>>

\* Lines 214-217.
FinalCleanup(r) ==
    /\ pc[r] = "final_cleanup" /\ loop = r
    /\ trace' = [trace EXCEPT ![r] = _clear_gpu_memory(@)]
    /\ Return(r, Embeddings(all_embeddings_list[r]))
    /\ UNCHANGED <<binascii, posted, input_type, inputs_data, all_embeddings_list, i,
                   batch_input_data, processed_batch, k, raised>>

Next ==
    \E r \in Solo :
        \/ pc[r] = "idle" /\ \E payload \in PostedBodies : RequestArrives(r, payload)
        \/ Dispatch(r)
        \/ Validate(r)
        \/ ForBatch(r)
        \/ Prepare(r)
        \/ \E outcome \in Outcomes : InferBatch(r, outcome)
        \/ BatchCleanup(r)
        \/ OomHandler(r)
        \/ SingleAttempt(r)
        \/ SingleCleanup(r)
        \/ ExceptValueError(r)
        \/ ExceptException(r)
        \/ FinalCleanup(r)

Spec == Init /\ [][Next]_vars

\* One step of the handler's coroutine for request r: everything but the
\* arrival of the request, which is the client's.
HandlerStep(r) ==
    \/ Dispatch(r)
    \/ Validate(r)
    \/ ForBatch(r)
    \/ Prepare(r)
    \/ \E outcome \in Outcomes : InferBatch(r, outcome)
    \/ BatchCleanup(r)
    \/ OomHandler(r)
    \/ SingleAttempt(r)
    \/ SingleCleanup(r)
    \/ ExceptValueError(r)
    \/ ExceptException(r)
    \/ FinalCleanup(r)

\* The event loop runs a handler that can take a step: the handler is
\* straight-line Python between its loops and waits for nothing (no await
\* in lines 120-217), and every model call returns or raises.
FairSpec == Init /\ [][Next]_vars /\ \A r \in Solo : WF_vars(HandlerStep(r))

\* The requests that two clients send to one container at about the same
\* time: two text requests of differing strings, one of them of two
\* batches, and two image requests, one with an item that is no image.
ConcPostedBodies ==
    { [input_type |-> "text", inputs |-> <<Str(<<"a">>), Str(<<"b">>)>>],
      [input_type |-> "text",
       inputs |-> <<Str(<<"b">>), Str(<<"b">>), Str(<<"a">>), Str(<<"a">>), Str(<<"b">>)>>],
      [input_type |-> "image", inputs |-> <<Str(<<"IMG2">>), Str(<<"JUNK">>)>>],
      [input_type |-> "image",
       inputs |-> <<Str(<<"data:", "image/png;base64", ",", "IMG1">>)>>] }

\* Several requests in one container: any of them may arrive at any time,
\* and the event loop runs one handler at a time (Dispatch).
NextConc ==
    \E r \in Requests :
        \/ pc[r] = "idle" /\ \E payload \in ConcPostedBodies : RequestArrives(r, payload)
        \/ Dispatch(r)
        \/ Validate(r)
        \/ ForBatch(r)
        \/ Prepare(r)
        \/ \E outcome \in Outcomes : InferBatch(r, outcome)
        \/ BatchCleanup(r)
        \/ OomHandler(r)
        \/ SingleAttempt(r)
        \/ SingleCleanup(r)
        \/ ExceptValueError(r)
        \/ ExceptException(r)
        \/ FinalCleanup(r)

SpecConc == Init /\ [][NextConc]_vars

\* ============================================================ claims
\* Readings of the history.
Done(r) == pc[r] = "done"
Events(r, kinds) == {j \in DOMAIN trace[r] : trace[r][j].ev \in kinds}
ModelCalls(r) == Events(r, {"infer", "single"})
Reclaims(r) == Cardinality(Events(r, {"reclaim"}))
BatchesStarted(r) == Cardinality(Events(r, {"batch"}))
Dropped(r) == {trace[r][j].at[1] : j \in Events(r, {"drop"})}
NoCallFailed(r) == \A j \in ModelCalls(r) : trace[r][j].res = "ok"
AllStrings(r) == \A p \in DOMAIN inputs_data[r] : isinstance_str(inputs_data[r][p])

\* The raster of an image string, under a runtime that decodes it.
ImageOf(x) ==
    LET runtime == CHOOSE rt \in Runtimes :
                       _decode_image(rt, x).ok \/ \A other \in Runtimes :
                                                      ~_decode_image(other, x).ok
    IN _decode_image(runtime, x).image

\* The embedding of one input taken alone.
EmbeddingOf(t, x) ==
    IF t = "image"
    THEN model(process_images(<<ImageOf(x)>>, "ok").batch)[1]
    ELSE model(process_queries(<<x>>, "ok").batch)[1]

\* The embeddings of the inputs at the given positions, in that order.
Expected(r, positions) ==
    [j \in 1..Len(positions) |->
        EmbeddingOf(input_type[r], inputs_data[r][positions[j]])]

AllPositions(r) == [p \in 1..Len(inputs_data[r]) |-> p]
Survivors(r) == SelectSeq(AllPositions(r), LAMBDA p : p \notin Dropped(r))

Succeeded(r, embeddings) ==
    /\ response[r].status = 200
    /\ response[r].body = "embeddings"
    /\ response[r].embeddings = embeddings

\* C1: every text request with inputs (strings, as EmbeddingRequest
\* declares them) in which no model call fails is answered 200 with one
\* embedding per input, the k-th being that of the k-th input, across
\* batch boundaries.
C1_OnePerInputInOrder ==
    \A r \in Requests :
        (Done(r) /\ input_type[r] = "text" /\ ~IsEmpty(inputs_data[r])
            /\ AllStrings(r) /\ NoCallFailed(r))
        => /\ Succeeded(r, Expected(r, AllPositions(r)))
           /\ Len(response[r].embeddings) = Len(inputs_data[r])

\* A five-item text request of differing strings answered after two batches.
C1_Witness ==
    \E r \in Requests :
        /\ Done(r) /\ input_type[r] = "text" /\ AllStrings(r) /\ NoCallFailed(r)
        /\ Len(inputs_data[r]) = TextBatchSize + 1
        /\ inputs_data[r][TextBatchSize] # inputs_data[r][TextBatchSize + 1]
        /\ inputs_data[r][1] # inputs_data[r][2]
        /\ BatchesStarted(r) = 2
        /\ response[r].status = 200

Recognized(t) == t \in {"text", "image"}

BadInputNoDevice(r) ==
    /\ response[r].status = 400
    /\ response[r].body = "error"
    /\ ModelCalls(r) = {}

\* C2, as stated: a request of unrecognized input_type, whatever its
\* inputs (the empty list included), ends in a 400 and calls no model.
C2_AsStated ==
    \A r \in Requests :
        (Done(r) /\ ~Recognized(input_type[r])) => BadInputNoDevice(r)

\* C2, amended: a request of unrecognized input_type with at least one
\* input ends in a 400 and calls no model.
C2_UnrecognizedTypeRejected ==
    \A r \in Requests :
        (Done(r) /\ ~Recognized(input_type[r]) /\ ~IsEmpty(inputs_data[r]))
        => BadInputNoDevice(r)

C2_Witness ==
    \E r \in Requests :
        /\ Done(r) /\ ~Recognized(input_type[r])
        /\ Len(inputs_data[r]) = 2
        /\ response[r].error = "Invalid input_type"

\* C3: a request without inputs is answered 200 with no embeddings,
\* whatever its input_type, and calls no model.
C3_EmptyInputsEmptyResult ==
    \A r \in Requests :
        (Done(r) /\ IsEmpty(inputs_data[r]))
        => /\ Succeeded(r, <<>>)
           /\ response[r].error = ""
           /\ ModelCalls(r) = {}

\* A request of unrecognized type without inputs has been answered.
C3_Witness ==
    \E r \in Requests :
        /\ Done(r) /\ IsEmpty(inputs_data[r])
        /\ ~Recognized(input_type[r])
        /\ response[r].status = 200

\* More readings of the history.
Range(f) == {f[j] : j \in DOMAIN f}
Last(tr) == tr[Len(tr)]
LatestCall(r) == CHOOSE j \in ModelCalls(r) : \A h \in ModelCalls(r) : h <= j
OkPositions(r) ==
    UNION {Range(trace[r][j].at) : j \in {h \in ModelCalls(r) : trace[r][h].res = "ok"}}
CalledPositions(r) == UNION {Range(trace[r][j].at) : j \in ModelCalls(r)}
StartedPositions(r) == UNION {Range(trace[r][j].at) : j \in Events(r, {"batch"})}
Failures(r) == Events(r, {"fail"})
Failed(r) ==
    /\ response[r].status \in {400, 500}
    /\ response[r].body = "error"
    /\ response[r].embeddings = <<>>

\* The latest model call was an item of the fallback and raised one of kinds.
SingleRaised(r, kinds) ==
    /\ ModelCalls(r) # {}
    /\ trace[r][LatestCall(r)].ev = "single"
    /\ raised[r] \in kinds

\* The latest model call was a whole batch of one item and ran out of memory.
BatchOfOneOom(r) ==
    /\ ModelCalls(r) # {}
    /\ trace[r][LatestCall(r)].ev = "infer"
    /\ Len(trace[r][LatestCall(r)].at) = 1
    /\ raised[r] = "oom"

\* C4: after out of memory on a batch of several items, an item whose own
\* attempt fails is the only thing left out: the loop goes on with the next
\* item or batch, the accumulator holds exactly the embeddings of the items
\* whose call succeeded, in input order, no failure of the request comes
\* from an item's own attempt, and unless a batch fails fatally the
\* request is answered 200 with the embeddings of the surviving inputs
\* in input order (as many as inputs minus dropped items).
C4_FailedItemAloneDropped ==
    \A r \in Requests :
        /\ (trace[r] # <<>> /\ Last(trace[r]).ev = "drop")
           => pc[r] \in {"single", "for_batch", "final_cleanup"}
        /\ all_embeddings_list[r] =
               Expected(r, SelectSeq(AllPositions(r), LAMBDA p : p \in OkPositions(r)))
        /\ Dropped(r) \cap OkPositions(r) = {}
        /\ \A j \in Failures(r) : j > 1 /\ trace[r][j - 1].ev # "single"
        /\ (Done(r) /\ Dropped(r) # {} /\ Failures(r) = {})
           => /\ Succeeded(r, Expected(r, Survivors(r)))
              /\ Len(response[r].embeddings) =
                     Len(inputs_data[r]) - Cardinality(Dropped(r))
              /\ OkPositions(r) \cup Dropped(r) = DOMAIN inputs_data[r]

\* Item 2 of the first batch was dropped; items 3 and 4 and the second
\* batch were still embedded.
C4_Witness ==
    \E r \in Requests :
        /\ Done(r) /\ response[r].status = 200
        /\ Len(inputs_data[r]) = TextBatchSize + 1
        /\ Dropped(r) = {2}
        /\ Len(response[r].embeddings) = TextBatchSize
        /\ inputs_data[r][1] # inputs_data[r][3]

\* C5, as stated: out of memory raised by an item of the fallback is fatal:
\* the handler goes to its 500 answer.
C5_AsStated ==
    \A r \in Requests :
        SingleRaised(r, {"oom"})
        => \/ pc[r] = "except_Exception"
           \/ Done(r) /\ response[r].status = 500

\* C5, amended: out of memory raised by an item of the fallback is caught
\* like any other failure of that item: the item is dropped, no 500 is
\* answered for it, and unless a batch fails fatally the request is
\* answered 200 with the embeddings of the surviving inputs.
C5_SingletonOomSwallowed ==
    \A r \in Requests :
        SingleRaised(r, {"oom"})
        => /\ pc[r] \notin {"except_Exception", "except_ValueError", "oom"}
           /\ response[r].status # 500
           /\ trace[r][LatestCall(r)].at[1] \in Dropped(r)
           /\ (Done(r) /\ Failures(r) = {})
              => Succeeded(r, Expected(r, Survivors(r)))

\* The last item of a request ran out of memory alone; the request
\* succeeded with the other embeddings.
C5_Witness ==
    \E r \in Requests :
        /\ Done(r) /\ SingleRaised(r, {"oom"})
        /\ response[r].status = 200
        /\ Len(response[r].embeddings) >= 1
        /\ Len(inputs_data[r]) \in Dropped(r)

\* C6: out of memory on a planned batch of one item is fatal: no item is
\* retried alone, no further batch is started, and the answer is a 500.
C6_BatchOfOneOomFatal ==
    \A r \in Requests :
        BatchOfOneOom(r)
        => /\ pc[r] \in {"oom", "except_Exception", "done"}
           /\ \A j \in Events(r, {"batch", "single", "drop"}) : j < LatestCall(r)
           /\ Done(r) => (Failed(r) /\ response[r].status = 500)

\* The one-item tail of a five-item text request ran out of memory.
C6_Witness ==
    \E r \in Requests :
        /\ Done(r) /\ BatchOfOneOom(r)
        /\ input_type[r] = "text"
        /\ trace[r][LatestCall(r)].at = <<TextBatchSize + 1>>
        /\ response[r].status = 500

\* An item the request cannot take: not a string in a text request, not
\* decodable to a raster in an image request.
BadItem(t, x) ==
    CASE t = "text" -> x.type # "str"
      [] t = "image" -> \A runtime \in RuntimesLeft : ~_decode_image(runtime, x).ok
      [] OTHER -> FALSE

\* The request has been answered, by the handler or before it.
Answered(r) == pc[r] \in {"done", "refused"}

\* C7, as stated: a bad item ends the whole request in a 400 without
\* embeddings, however many other items are valid: an item of a posted
\* text request that is no string, and an image that cannot be decoded in
\* any batch the request comes to.
C7_AsStated ==
    \A r \in Requests :
        /\ (Answered(r) /\ posted[r].input_type = "text"
              /\ \E p \in DOMAIN posted[r].inputs :
                     /\ BadItem("text", posted[r].inputs[p])
                     /\ pc[r] = "refused" \/ p \in StartedPositions(r))
           => (Failed(r) /\ response[r].status = 400)
        /\ (Done(r) /\ input_type[r] = "image"
              /\ \E p \in StartedPositions(r) :
                     BadItem("image", inputs_data[r][p]))
           => (Failed(r) /\ response[r].status = 400)

\* C8, as stated: a failed request is answered 400 exactly when its failure
\* is BadInput and 500 for ResourceExhausted and Internal; nothing else is
\* answered, and a success carries no error.
C8_StatusByClassification ==
    \A r \in Requests :
        Done(r)
        => /\ response[r].status \in {200, 400, 500}
           /\ (response[r].status = 200) <=> (Failures(r) = {})
           /\ response[r].status = 200 => Succeeded(r, response[r].embeddings)
           /\ \A j \in Failures(r) :
                  /\ (trace[r][j].res = "BadInput") <=> (response[r].status = 400)
                  /\ (trace[r][j].res \in {"ResourceExhausted", "Internal"})
                         <=> (response[r].status = 500)

ReclaimedAfter(r, j) == \E h \in Events(r, {"reclaim"}) : h > j

\* C9, as stated: every terminal failure (BadInput, ResourceExhausted or
\* Internal) is followed by a reclaim made after it and before the answer.
C9_AsStated ==
    \A r \in Requests :
        Done(r) => \A j \in Failures(r) : ReclaimedAfter(r, j)

\* C10, as stated: when a request returns, it has reclaimed at least once
\* per batch it started.
C10_AsStated ==
    \A r \in Requests : Done(r) => Reclaims(r) >= BatchesStarted(r)

\* C11, as stated: a reclaim follows every model call, whole batch or
\* single item, returned or raised, so that between any two model calls
\* of a request there is at least one reclaim.
C11_ReclaimAfterEveryCall ==
    \A r \in Requests :
        \A j, h \in ModelCalls(r) :
            j < h => \E m \in Events(r, {"reclaim"}) : j < m /\ m < h

IsPrefix(s, t) == Len(s) <= Len(t) /\ s = SubSeq(t, 1, Len(s))

\* The inference steps on a whole batch of several items that ran out of
\* memory: in the model call, which the reclaim of line 177 follows, or in
\* the processor call, which leaves the loop as ResourceExhausted.
OomBatches(r) ==
    {j \in Events(r, {"infer"}) :
        /\ Len(trace[r][j].at) > 1
        /\ trace[r][j].res = "raised"
        /\ j < Len(trace[r])
        /\ \/ trace[r][j + 1].ev = "reclaim"
           \/ /\ trace[r][j + 1].ev = "fail"
              /\ trace[r][j + 1].res = "ResourceExhausted"}

\* Where the part of the history that belongs to the batch of call j ends:
\* at the next batch, or at the end of the history.
BatchEnd(r, j) ==
    IF \E h \in Events(r, {"batch"}) : h > j
    THEN (CHOOSE h \in Events(r, {"batch"}) :
              h > j /\ \A g \in Events(r, {"batch"}) : g > j => h <= g) - 1
    ELSE Len(trace[r])

\* The single-item calls that follow call j within its batch, in order.
SinglesOf(r, j) ==
    SelectSeq(SubSeq(trace[r], j + 1, BatchEnd(r, j)), LAMBDA e : e.ev = "single")

\* The handler has left the batch of call j: for the next batch, for the
\* end of the loop, or for its answer.
BatchOver(r, j) ==
    \/ BatchEnd(r, j) < Len(trace[r])
    \/ pc[r] \in {"for_batch", "final_cleanup"}
    \/ Done(r)

\* What a successful call on the whole batch at the given positions appends.
WholeBatchEmbeddings(r, at) ==
    model(process_queries([p \in 1..Len(at) |-> inputs_data[r][at[p]]], "ok").batch)

\* C12, as stated: after an inference step on a whole batch of several
\* items has failed out of memory, the items of that batch are called one
\* by one, each once and in batch order, the whole batch is not called
\* again, and when every item succeeds the batch has appended what the
\* whole-batch call would have appended.
C12_OneFallbackInOrder ==
    \A r \in Requests : \A j \in OomBatches(r) :
        LET at == trace[r][j].at
            singles == SinglesOf(r, j)
            called == [p \in 1..Len(singles) |-> singles[p].at[1]]
        IN /\ IsPrefix(called, at)
           /\ BatchOver(r, j) => called = at
           /\ \A h \in Events(r, {"infer"}) : h # j => trace[r][h].at # at
           /\ (pc[r] = "for_batch" /\ BatchEnd(r, j) = Len(trace[r])
                 /\ \A p \in 1..Len(singles) : singles[p].res = "ok")
              => /\ Len(all_embeddings_list[r]) >= Len(at)
                 /\ SubSeq(all_embeddings_list[r],
                           Len(all_embeddings_list[r]) - Len(at) + 1,
                           Len(all_embeddings_list[r]))
                      = WholeBatchEmbeddings(r, at)

\* The exceptions of a model call that are not out of memory.
InternalKinds == {"runtime", "value", "other"}

\* The latest model call was a whole batch and raised one of kinds.
BatchRaised(r, kinds) ==
    /\ ModelCalls(r) # {}
    /\ trace[r][LatestCall(r)].ev = "infer"
    /\ raised[r] \in kinds

\* C13, as stated: a model call, whole batch or single item, that raises
\* anything but out of memory ends the request in a 500.
C13_AsStated ==
    \A r \in Requests :
        (BatchRaised(r, InternalKinds) \/ SingleRaised(r, InternalKinds))
        => \/ pc[r] = "except_Exception"
           \/ Done(r) /\ response[r].status = 500

\* C13, amended: a whole-batch call that raises anything but out of memory
\* ends the request at once: it is the last model call, the answer is an
\* error without embeddings, 500 unless the exception is a ValueError
\* (which "except ValueError" answers 400); a single item that raises the
\* same is dropped and the request goes on.
C13_BatchInternalFatal ==
    \A r \in Requests :
        /\ BatchRaised(r, InternalKinds)
           => /\ pc[r] \in {"except_Exception", "except_ValueError", "done"}
              /\ pc[r] = "except_ValueError" <=> (~Done(r) /\ raised[r] = "value")
              /\ Last(trace[r]).ev \in {"fail", "reclaim"}
              /\ Done(r) => /\ Failed(r)
                            /\ response[r].status =
                                   IF raised[r] = "value" THEN 400 ELSE 500
        /\ \A j \in Events(r, {"infer"}) :
               (j < Len(trace[r]) /\ trace[r][j + 1].ev = "fail")
               => \A h \in ModelCalls(r) : h <= j
        /\ SingleRaised(r, InternalKinds)
           => /\ pc[r] \notin {"except_Exception", "except_ValueError"}
              /\ trace[r][LatestCall(r) + 1].ev = "drop"
              /\ Failures(r) \subseteq {Len(trace[r])}

\* The second batch of a text request raised a RuntimeError that is not out
\* of memory, after the first batch had been embedded: answered 500.
C13_Witness ==
    \E r \in Requests :
        /\ Done(r) /\ BatchRaised(r, {"runtime"})
        /\ BatchesStarted(r) = 2
        /\ Len(all_embeddings_list[r]) = TextBatchSize
        /\ response[r].status = 500

\* The batches of the request so far, as the positions each one holds, in
\* the order the loop came to them.
Batches(r) ==
    LET started == SelectSeq(trace[r], LAMBDA e : e.ev = "batch")
    IN [m \in 1..Len(started) |-> started[m].at]

\* The batch (by its index in the history) that event j belongs to.
BatchBefore(r, j) ==
    CHOOSE h \in Events(r, {"batch"}) :
        h < j /\ \A g \in Events(r, {"batch"}) : g < j => g <= h

\* C14: the batches of a request are windows of consecutive positions, the
\* first starting at the first input and each next one right after the one
\* before, holding the inputs at those positions; a text batch has 1 to 4
\* items and only the one that ends the list may have fewer than 4, an
\* image batch exactly 1; every model call
\* is on items of the batch started last, so batches are worked through
\* one after another; and a request answered 200 has gone through all of
\* its inputs.
C14_BatchesPartitionInOrder ==
    \A r \in Requests :
        LET B == Batches(r)
            n == Len(inputs_data[r])
        IN /\ \A m \in 1..Len(B) :
                 /\ Len(B[m]) >= 1
                 /\ B[m][1] = (IF m = 1 THEN 1 ELSE Last(B[m - 1]) + 1)
                 /\ \A p \in 1..Len(B[m]) : B[m][p] = B[m][1] + p - 1
                 /\ Last(B[m]) <= n
                 /\ input_type[r] = "text"
                    => /\ Len(B[m]) <= TextBatchSize
                       /\ Len(B[m]) < TextBatchSize => Last(B[m]) = n
                 /\ input_type[r] # "text" => Len(B[m]) = ImageBatchSize
           /\ Len(B) >= 1
              => batch_input_data[r] =
                     [p \in 1..Len(Last(B)) |-> inputs_data[r][Last(B)[p]]]
           /\ \A j \in ModelCalls(r) :
                 Range(trace[r][j].at) \subseteq Range(trace[r][BatchBefore(r, j)].at)
           /\ (Done(r) /\ response[r].status = 200) => StartedPositions(r) = 1..n

\* A five-item text request answered 200 after a batch of four and a batch
\* of one.
C14_Witness ==
    \E r \in Requests :
        /\ Done(r) /\ response[r].status = 200
        /\ input_type[r] = "text"
        /\ Batches(r) = <<Positions(0, TextBatchSize), <<TextBatchSize + 1>> >>

\* The terminal states of a request: answered 200 with embeddings, or
\* answered with an error.
Completed(r) == Done(r) /\ response[r].status = 200 /\ response[r].body = "embeddings"
FailedState(r) == Done(r) /\ Failed(r)

\* C15: every request that has arrived is eventually answered, whatever the
\* model calls do; an answered request is either Completed or Failed and
\* not both; and once answered it stays answered, with the same answer and
\* no further model call.
C15_ReachesOneTerminalState ==
    /\ \A r \in Requests : (pc[r] = "queued") ~> Done(r)
    /\ [](\A r \in Requests : Done(r) => (Completed(r) /\ ~FailedState(r))
                                          \/ (FailedState(r) /\ ~Completed(r)))
    /\ [][\A r \in Requests :
             Done(r) => /\ Done(r)'
                        /\ response'[r] = response[r]
                        /\ trace'[r] = trace[r]]_vars

\* A text request answered after a fallback in which an item was dropped
\* and a second batch.
C15_Witness ==
    \E r \in Requests :
        /\ Completed(r)
        /\ Dropped(r) # {}
        /\ BatchesStarted(r) = 2

\* The positions whose model call succeeded, in the order of the inputs.
EmbeddedPositions(r) == SelectSeq(AllPositions(r), LAMBDA p : p \in OkPositions(r))

\* C16: with several requests in the container, under every interleaving a
\* request's accumulator holds the embeddings of its own inputs whose model
\* call succeeded, in input order, and nothing else; a request answered 200
\* returns the embeddings of its own inputs less its own dropped items,
\* whatever failed or was dropped in the other request.
C16_OwnAccumulator ==
    \A r \in Requests :
        /\ all_embeddings_list[r] = Expected(r, EmbeddedPositions(r))
        /\ Completed(r) => response[r].embeddings = Expected(r, Survivors(r))
        /\ Done(r) /\ ~Completed(r) => response[r].embeddings = <<>>

\* Two text requests of different inputs, both answered 200: one lost an
\* item in its fallback, the other returns all of its embeddings.
C16_Witness ==
    \E r, q \in Requests :
        /\ r # q /\ Completed(r) /\ Completed(q)
        /\ input_type[r] = "text" /\ input_type[q] = "text"
        /\ inputs_data[r] # inputs_data[q]
        /\ Dropped(r) # {}
        /\ Len(response[r].embeddings) = Len(inputs_data[r]) - 1
        /\ Dropped(q) = {}
        /\ Len(response[q].embeddings) = Len(inputs_data[q])

\* The handler of r has been started and has not returned.
Running(r) == pc[r] \notin {"idle", "queued", "done"}

\* The handler of r is at a model call.
AtModelCall(r) == pc[r] \in {"infer", "single"}

\* C17: with several requests in flight in the container, at most one
\* handler is running, and it is the one that has the event loop; so never
\* are two model calls in progress at once, though no lock is taken.
C17_OneModelCallAtATime ==
    \A r, q \in Requests :
        /\ (Running(r) /\ Running(q)) => r = q
        /\ (AtModelCall(r) /\ AtModelCall(q)) => r = q
        /\ Running(r) => loop = r

\* One request is at its model call while the other has arrived and waits.
C17_Witness ==
    \E r, q \in Requests :
        /\ r # q
        /\ AtModelCall(r) /\ ModelCalls(r) # {}
        /\ pc[q] = "queued"

\* C18: a request that fails is answered with an error and none of the
\* embeddings of the batches that went before; the fatal failure is the
\* end of its work: no batch is started and no model is called after it.
C18_FailureReturnsNoEmbeddings ==
    \A r \in Requests :
        /\ (Done(r) /\ response[r].status # 200)
           => /\ Failed(r)
              /\ Failures(r) # {}
        /\ \A j \in Failures(r) :
              /\ \A h \in Events(r, {"batch", "infer", "single", "drop"}) : h < j
              /\ StartedPositions(r) = 1..Cardinality(StartedPositions(r))
              /\ pc[r] \in {"except_ValueError", "except_Exception", "done"}
              /\ Done(r) => Failed(r)

\* A text request whose first batch was embedded and whose second batch
\* failed: the answer is an error without the four embeddings.
C18_Witness ==
    \E r \in Requests :
        /\ Done(r) /\ Failed(r)
        /\ response[r].status = 500
        /\ BatchesStarted(r) = 2
        /\ Len(all_embeddings_list[r]) = TextBatchSize
        /\ Len(inputs_data[r]) = TextBatchSize + 1

\* C19: only a text request comes to the item-by-item path.  Of any other
\* request no item is called alone or dropped and no item is given to the
\* model twice; an image request answered 200 has one embedding per input,
\* in order; an answer of fewer embeddings than inputs is a text request's.
C19_FallbackOnlyForText ==
    \A r \in Requests :
        /\ input_type[r] # "text"
           => /\ Events(r, {"single", "drop"}) = {}
              /\ pc[r] \notin {"single", "single_cleanup"}
              /\ \A j, h \in ModelCalls(r) :
                     j # h => Range(trace[r][j].at) \cap Range(trace[r][h].at) = {}
        /\ (Completed(r) /\ input_type[r] = "image")
           => /\ response[r].embeddings = Expected(r, AllPositions(r))
              /\ Len(response[r].embeddings) = Len(inputs_data[r])
        /\ (Completed(r) /\ Len(response[r].embeddings) < Len(inputs_data[r]))
           => input_type[r] = "text"

\* An image request of three items answered 200 after three batches.
C19_Witness ==
    \E r \in Requests :
        /\ Completed(r) /\ input_type[r] = "image"
        /\ Len(inputs_data[r]) = 3
        /\ BatchesStarted(r) = 3
        /\ inputs_data[r][1] # inputs_data[r][2]
        /\ Len(response[r].embeddings) = 3
====
